---- MODULE Spec2Model ----
(***************************************************************************)
(* A model of src/hasher.py: the streaming multi-algorithm digest engine   *)
(* (Hasher.hash_file, Hasher.hash_text), the algorithm validator, the      *)
(* label shortener (_shorten_middle_text) and the input resolution of the  *)
(* command line entry point (Hasher.cli.main).                             *)
(*                                                                         *)
(* Bytes are integers 0..255, a text is a sequence of Unicode code points, *)
(* a method is a sequence of steps named after the source line they model  *)
(* ("f52" is line 52 of hash_file, "t82" is line 82 of hash_text).         *)
(***************************************************************************)
EXTENDS Integers, Sequences, FiniteSets, TLC

VARIABLES
    fs,               \* the disk: the state of the path the call names
    text,             \* the text the environment holds (argument of hash_text)
    call,             \* the arguments of the running invocation
    pc,               \* position of the running invocation
    hash_algorithms,  \* local hash_algorithms (reassigned on lines 56/62, 80/87)
    data,             \* local data of hash_text (line 82)
    total,            \* local total (lines 58, 83)
    chunk_size,       \* local chunk_size (lines 60, 85)
    hashers,          \* local hashers: the ordered dict of accumulators
    f,                \* the file handle of hash_file: [open, pos]
    rng,              \* the indices range(0, total, chunk_size) has yet to yield
    chunk,            \* local chunk
    hidx,             \* position of the loop over hashers.values()
    pbar,             \* bytes reported to the progress bar
    events,           \* history: validation and every operation on the input, in order
    reads,            \* history: the chunks the reader has produced, in order
    outcome,          \* how the invocation ended: a returned mapping or a raised error
    prev,             \* summary of the invocation that ran before this one
    argv,             \* main: the parameters input, file, text as parsed
    file_opt,         \* main: local file (reassigned on line 126)
    text_opt,         \* main: local text (reassigned on line 127)
    mpc,              \* main: position
    disk,             \* main: which strings name a regular file, a directory, nothing
    probes,           \* main: history of the os.path.isfile calls
    sh                \* _shorten_middle_text: arguments and result of the last call

engineVars == <<fs, text, call, pc, hash_algorithms, data, total, chunk_size, hashers,
                f, rng, chunk, hidx, pbar, events, reads, outcome, prev>>
mainVars == <<argv, file_opt, text_opt, mpc, disk, probes>>
vars == <<engineVars, mainVars, sh>>

(***************************************************************************)
(* Bounds of the model.                                                    *)
(***************************************************************************)
\* Bytes per "MB": stands for the factor 1024 * 1024 of lines 60 and 85, scaled
\* down so that inputs of several chunks can be enumerated.  Any value >= 2
\* keeps what the code's factor gives: a negative chunk_size_mb yields a
\* chunk_size below -1.
BytesPerMB == 2
\* Longest text, in code points.
MaxTextLen == 2
\* Longest requested algorithm list.
MaxAlgs == 2
\* Largest chunk_size_mb; the smallest is -1.
MaxChunkSizeMb == 2

(***************************************************************************)
(* Values.                                                                 *)
(***************************************************************************)
\* An optional argument: None, or a value.
None == [given |-> FALSE, val |-> <<>>]
Some(v) == [given |-> TRUE, val |-> v]
\* None where a string may stand (the parameters of main)
NoParam == [given |-> FALSE, val |-> ""]

SeqsUpTo(S, n) == UNION {[1..k -> S] : k \in 0..n}

\* 'a' (1 byte in UTF-8), U+00E9 (2 bytes), U+D800 (a lone surrogate: no encoding)
CodePoints == {97, 233, 55296}
Texts == SeqsUpTo(CodePoints, MaxTextLen)

\* identifiers a caller may request: two supported, two not
AlgIds == {"md5", "sha256", "bogus", "crc32"}
AlgLists == SeqsUpTo(AlgIds, MaxAlgs)
ChunkSizesMb == (-1) .. MaxChunkSizeMb

support_hash_algorithms == <<"md5", "sha1", "sha256", "sha512">>
default_hash_algorithms == support_hash_algorithms

Range(s) == {s[i] : i \in 1..Len(s)}

(***************************************************************************)
(* Python built-ins the code relies on.                                    *)
(***************************************************************************)
\* s[lo:hi] of Python, 0-based, negative indices counted from the end
Clamp(i, n) == IF i < 0 THEN (IF i + n < 0 THEN 0 ELSE i + n) ELSE (IF i > n THEN n ELSE i)
PySlice(s, lo, hi) == SubSeq(s, Clamp(lo, Len(s)) + 1, Clamp(hi, Len(s)))
\* s[lo:] of Python
PySliceFrom(s, lo) == SubSeq(s, Clamp(lo, Len(s)) + 1, Len(s))

\* Python's floor division by a positive divisor
FloorDiv(a, b) == IF a >= 0 THEN a \div b ELSE -(((-a) + b - 1) \div b)

\* the UTF-8 encoding of one code point
Utf8(cp) ==
    IF cp < 128 THEN <<cp>>
    ELSE IF cp < 2048 THEN <<192 + (cp \div 64), 128 + (cp % 64)>>
    ELSE IF cp < 65536 THEN <<224 + (cp \div 4096), 128 + ((cp \div 64) % 64), 128 + (cp % 64)>>
    ELSE <<240 + (cp \div 262144), 128 + ((cp \div 4096) % 64),
           128 + ((cp \div 64) % 64), 128 + (cp % 64)>>
IsSurrogate(cp) == cp >= 55296 /\ cp <= 57343

RECURSIVE EncodeBytes(_)
EncodeBytes(t) == IF t = <<>> THEN <<>> ELSE Utf8(Head(t)) \o EncodeBytes(Tail(t))
\* text.encode("utf-8"): the bytes, or UnicodeEncodeError on a lone surrogate
Encode(t) ==
    IF \E i \in 1..Len(t) : IsSurrogate(t[i])
    THEN [ok |-> FALSE, bytes |-> <<>>]
    ELSE [ok |-> TRUE, bytes |-> EncodeBytes(t)]

\* list(range(0, stop, step)) for step # 0
RECURSIVE RangeFrom(_, _, _)
RangeFrom(i, stop, step) ==
    IF (step > 0 /\ i < stop) \/ (step < 0 /\ i > stop)
    THEN <<i>> \o RangeFrom(i + step, stop, step)
    ELSE <<>>

\* a reader that loses the byte at the start of every read
ReadBytes_mutSkip(content, pos, n) ==
    IF n = -1 THEN SubSeq(content, pos + 2, Len(content))
    ELSE SubSeq(content, pos + 2, IF pos + n > Len(content) THEN Len(content) ELSE pos + n)

\* f.read(n) of a buffered binary file at offset pos, for n >= -1:
\* n = -1 reads to the end, otherwise up to n bytes
ReadBytes(content, pos, n) ==
    IF n = -1 THEN SubSeq(content, pos + 1, Len(content))
    ELSE SubSeq(content, pos + 1, IF pos + n > Len(content) THEN Len(content) ELSE pos + n)

(***************************************************************************)
(* hashlib: an accumulator is the bytes it has absorbed (data) and, as     *)
(* history, the update calls it received (calls).  A digest is modelled as *)
(* an injective function of the algorithm and the absorbed bytes.          *)
(***************************************************************************)
NewHasher == [data |-> <<>>, calls |-> <<>>]
Update(h, c) == [data |-> h.data \o c, calls |-> Append(h.calls, c)]
HexDigest(alg, h) == <<alg, h.data>>

NoHashers == [keys |-> <<>>, acc |-> <<>>, constructed |-> 0]

\* a list of accumulators instead of a dict: a repeated identifier is kept twice
RECURSIVE DictOfHashers_mutNoCollapse(_, _)
DictOfHashers_mutNoCollapse(algs, d) ==
    IF algs = <<>> THEN d
    ELSE LET keys == Append(d.keys, Head(algs))
         IN DictOfHashers_mutNoCollapse(Tail(algs),
                [keys |-> keys,
                 acc |-> [k \in Range(keys) |-> NewHasher],
                 constructed |-> d.constructed + 1])

\* {i: getattr(hashlib, i)() for i in algs}: a dict keeps a key at the position
\* of its first insertion and the value of its last
RECURSIVE DictOfHashers(_, _)
DictOfHashers(algs, d) ==
    IF algs = <<>> THEN d
    ELSE LET i == Head(algs)
             keys == IF i \in Range(d.keys) THEN d.keys ELSE Append(d.keys, i)
         IN DictOfHashers(Tail(algs),
                [keys |-> keys,
                 acc |-> [k \in Range(keys) |-> IF k = i THEN NewHasher ELSE d.acc[k]],
                 constructed |-> d.constructed + 1])

\* {i: h.hexdigest() for i, h in hashers.items()}, as the list of its items
Digests(d) == [n \in 1..Len(d.keys) |-> <<d.keys[n], HexDigest(d.keys[n], d.acc[d.keys[n]])>>]

(***************************************************************************)
(* _validate_hash_algorithms (lines 27-32): the list itself, or ValueError *)
(* for the first member that is not supported.                             *)
(***************************************************************************)
RECURSIVE ValidateFrom(_, _)
ValidateFrom(algs, n) ==
    IF n > Len(algs) THEN [ok |-> TRUE, val |-> algs, bad |-> ""]
    ELSE IF algs[n] \in Range(support_hash_algorithms) THEN ValidateFrom(algs, n + 1)
    ELSE [ok |-> FALSE, val |-> <<>>, bad |-> algs[n]]
\* a validator that drops the unsupported identifiers instead of failing
RECURSIVE SupportedOnly(_)
SupportedOnly(algs) ==
    IF algs = <<>> THEN <<>>
    ELSE IF Head(algs) \in Range(support_hash_algorithms)
         THEN <<Head(algs)>> \o SupportedOnly(Tail(algs))
         ELSE SupportedOnly(Tail(algs))
_validate_mutSkipUnsupported(algs) == [ok |-> TRUE, val |-> SupportedOnly(algs), bad |-> ""]

_validate_hash_algorithms(algs) == ValidateFrom(algs, 1)

(***************************************************************************)
(* The disk.                                                               *)
(***************************************************************************)
Absent == [kind |-> "absent", content |-> <<>>]
Dir == [kind |-> "dir", content |-> <<>>]
RegularFile(bytes) == [kind |-> "file", content |-> bytes]
IsFile(s) == s.kind = "file"
FileContents == {Encode(t).bytes : t \in {u \in Texts : Encode(u).ok}}

(***************************************************************************)
(* Outcomes of an invocation.                                              *)
(***************************************************************************)
Running == [status |-> "running", result |-> <<>>, error |-> <<>>]
Returned(r) == [status |-> "returned", result |-> r, error |-> <<>>]
Raised(e) == [status |-> "raised", result |-> <<>>, error |-> e]
UnsupportedError(i) == <<"ValueError", "Unsupported hash_algorithm", i>>

NoCall == [kind |-> "none", algs |-> None, mb |-> 0]
NoPrev == [kind |-> "none", algs |-> None, mb |-> 0, outcome |-> Running]

(***************************************************************************)
(* Hasher.hash_file (lines 46-71).                                         *)
(***************************************************************************)
\* an exception leaves the method; the with statement of line 65 closes the file
Raise(e) ==
    /\ outcome' = Raised(e)
    /\ pc' = "done"
    /\ f' = [f EXCEPT !.open = FALSE]

CallHashFile(algs, mb) ==
    /\ pc = "idle"
    \* an invocation that follows another one asks for the same algorithms
    /\ prev.kind # "none" => algs = prev.algs
    /\ call' = [kind |-> "file", algs |-> algs, mb |-> mb]
    /\ hash_algorithms' = algs
    /\ pc' = "f52"
    /\ UNCHANGED <<fs, text, data, total, chunk_size, hashers, f, rng, chunk, hidx, pbar,
                   events, reads, outcome, prev, mainVars, sh>>

\* lines 52-53: if not os.path.isfile(file_path): raise FileNotFoundError
FileIsFile ==
    /\ pc = "f52"
    /\ events' = Append(events, "isfile")
    /\ IF IsFile(fs)
       THEN pc' = "f55" /\ UNCHANGED <<outcome, f>>
       ELSE Raise(<<"FileNotFoundError">>)
    /\ UNCHANGED <<fs, text, call, hash_algorithms, data, total, chunk_size, hashers, rng,
                   chunk, hidx, pbar, reads, prev, mainVars, sh>>

\* lines 55-56: the default list when none is given
FileDefault ==
    /\ pc = "f55"
    /\ hash_algorithms' = IF hash_algorithms.given THEN hash_algorithms
                          ELSE Some(default_hash_algorithms)
    /\ pc' = "f58"
    /\ UNCHANGED <<fs, text, call, data, total, chunk_size, hashers, f, rng, chunk, hidx,
                   pbar, events, reads, outcome, prev, mainVars, sh>>

\* line 58: total = os.path.getsize(file_path)
FileGetSize ==
    /\ pc = "f58"
    /\ total' = Len(fs.content)
    /\ events' = Append(events, "getsize")
    /\ pc' = "f59"
    /\ UNCHANGED <<fs, text, call, hash_algorithms, data, chunk_size, hashers, f, rng,
                   chunk, hidx, pbar, reads, outcome, prev, mainVars, sh>>

\* lines 59-60: desc (a label of the progress bar, no effect on the state) and
\* chunk_size = chunk_size_mb * 1024 * 1024
FileChunkSize ==
    /\ pc = "f59"
    /\ chunk_size' = call.mb * BytesPerMB
    /\ pc' = "f62"
    /\ UNCHANGED <<fs, text, call, hash_algorithms, data, total, hashers, f, rng, chunk,
                   hidx, pbar, events, reads, outcome, prev, mainVars, sh>>

\* lines 62 and 87: hash_algorithms = self._validate_hash_algorithms(hash_algorithms)
ValidateStep(next) ==
    LET v == _validate_hash_algorithms(hash_algorithms.val) IN
    /\ events' = Append(events, "validate")
    /\ IF v.ok
       THEN /\ hash_algorithms' = Some(v.val)
            /\ pc' = next
            /\ UNCHANGED <<outcome, f>>
       ELSE /\ Raise(UnsupportedError(v.bad))
            /\ UNCHANGED hash_algorithms
    /\ UNCHANGED <<fs, text, call, data, total, chunk_size, hashers, rng, chunk, hidx,
                   pbar, reads, prev, mainVars, sh>>

FileValidate == pc = "f62" /\ ValidateStep("f63")

\* lines 63 and 88: hashers = {i: getattr(hashlib, i)() for i in hash_algorithms}
HashersStep(next) ==
    /\ hashers' = DictOfHashers(hash_algorithms.val, NoHashers)
    /\ pc' = next
    /\ UNCHANGED <<fs, text, call, hash_algorithms, data, total, chunk_size, f, rng, chunk,
                   hidx, pbar, events, reads, outcome, prev, mainVars, sh>>

FileHashers == pc = "f63" /\ HashersStep("f65")

\* line 65: with open(file_path, "rb") as f, tqdm(total=total, ...) as pbar
FileOpen ==
    /\ pc = "f65"
    /\ f' = [open |-> TRUE, pos |-> 0]
    /\ pbar' = 0
    /\ events' = Append(events, "open")
    /\ pc' = "f66"
    /\ UNCHANGED <<fs, text, call, hash_algorithms, data, total, chunk_size, hashers, rng,
                   chunk, hidx, reads, outcome, prev, mainVars, sh>>

\* line 66: while chunk := f.read(chunk_size)
FileRead ==
    /\ pc = "f66"
    /\ events' = Append(events, "read")
    /\ IF chunk_size < -1
       THEN /\ Raise(<<"ValueError", "read length must be non-negative or -1">>)
            /\ UNCHANGED <<chunk, hidx, reads>>
       ELSE LET c == ReadBytes(fs.content, f.pos, chunk_size) IN
            /\ chunk' = c
            /\ UNCHANGED outcome
            /\ IF c = <<>>
               THEN /\ f' = [f EXCEPT !.open = FALSE]
                    /\ pc' = "f71"
                    /\ UNCHANGED <<hidx, reads>>
               ELSE /\ f' = [f EXCEPT !.pos = f.pos + Len(c)]
                    /\ reads' = Append(reads, c)
                    /\ hidx' = 1
                    /\ pc' = IF hashers.keys = <<>> THEN "f69" ELSE "f67"
    /\ UNCHANGED <<fs, text, call, hash_algorithms, data, total, chunk_size, hashers, rng,
                   pbar, prev, mainVars, sh>>

\* lines 67-68 and 93-94: for h in hashers.values(): h.update(chunk), one
\* accumulator per step
UpdateStep(next) ==
    LET k == hashers.keys[hidx] IN
    /\ hashers' = [hashers EXCEPT !.acc[k] = Update(hashers.acc[k], chunk)]
    /\ hidx' = hidx + 1
    /\ pc' = IF hidx = Len(hashers.keys) THEN next ELSE pc
    /\ UNCHANGED <<fs, text, call, hash_algorithms, data, total, chunk_size, f, rng, chunk,
                   pbar, events, reads, outcome, prev, mainVars, sh>>

FileUpdate == pc = "f67" /\ UpdateStep("f69")

\* lines 69 and 95: pbar.update(len(chunk))
PbarStep(next) ==
    /\ pbar' = pbar + Len(chunk)
    /\ pc' = next
    /\ UNCHANGED <<fs, text, call, hash_algorithms, data, total, chunk_size, hashers, f,
                   rng, chunk, hidx, events, reads, outcome, prev, mainVars, sh>>

FilePbar == pc = "f69" /\ PbarStep("f66")

\* lines 71 and 97: return {i: h.hexdigest() for i, h in hashers.items()}
ReturnStep ==
    /\ outcome' = Returned(Digests(hashers))
    /\ pc' = "done"
    /\ UNCHANGED <<fs, text, call, hash_algorithms, data, total, chunk_size, hashers, f,
                   rng, chunk, hidx, pbar, events, reads, prev, mainVars, sh>>

FileReturn == pc = "f71" /\ ReturnStep

(***************************************************************************)
(* Hasher.hash_text (lines 73-97).                                         *)
(***************************************************************************)
CallHashText(algs, mb) ==
    /\ pc = "idle"
    \* an invocation that follows another one asks for the same algorithms
    /\ prev.kind # "none" => algs = prev.algs
    /\ call' = [kind |-> "text", algs |-> algs, mb |-> mb]
    /\ hash_algorithms' = algs
    /\ pc' = "t79"
    /\ UNCHANGED <<fs, text, data, total, chunk_size, hashers, f, rng, chunk, hidx, pbar,
                   events, reads, outcome, prev, mainVars, sh>>

\* lines 79-80: the default list when none is given
TextDefault ==
    /\ pc = "t79"
    /\ hash_algorithms' = IF hash_algorithms.given THEN hash_algorithms
                          ELSE Some(default_hash_algorithms)
    /\ pc' = "t82"
    /\ UNCHANGED <<fs, text, call, data, total, chunk_size, hashers, f, rng, chunk, hidx,
                   pbar, events, reads, outcome, prev, mainVars, sh>>

\* line 82: data = text.encode("utf-8")
TextEncode ==
    /\ pc = "t82"
    /\ events' = Append(events, "encode")
    /\ IF Encode(text).ok
       THEN /\ data' = Encode(text).bytes
            /\ pc' = "t83"
            /\ UNCHANGED <<outcome, f>>
       ELSE /\ Raise(<<"UnicodeEncodeError">>)
            /\ UNCHANGED data
    /\ UNCHANGED <<fs, text, call, hash_algorithms, total, chunk_size, hashers, rng, chunk,
                   hidx, pbar, reads, prev, mainVars, sh>>

\* lines 83-85: total = len(data), desc (a label, no effect on the state) and
\* chunk_size = chunk_size_mb * 1024 * 1024
TextChunkSize ==
    /\ pc = "t83"
    /\ total' = Len(data)
    /\ chunk_size' = call.mb * BytesPerMB
    /\ pc' = "t87"
    /\ UNCHANGED <<fs, text, call, hash_algorithms, data, hashers, f, rng, chunk, hidx,
                   pbar, events, reads, outcome, prev, mainVars, sh>>

TextValidate == pc = "t87" /\ ValidateStep("t88")

TextHashers == pc = "t88" /\ HashersStep("t90")

\* lines 90-91: with tqdm(total=total, ...) as pbar: for i in range(0, total, chunk_size)
\* range() raises ValueError when its step is zero
TextRange ==
    /\ pc = "t90"
    /\ pbar' = 0
    /\ IF chunk_size = 0
       THEN /\ Raise(<<"ValueError", "range() arg 3 must not be zero">>)
            /\ UNCHANGED rng
       ELSE /\ rng' = RangeFrom(0, total, chunk_size)
            /\ pc' = "t91"
            /\ UNCHANGED <<outcome, f>>
    /\ UNCHANGED <<fs, text, call, hash_algorithms, data, total, chunk_size, hashers, chunk,
                   hidx, events, reads, prev, mainVars, sh>>

\* lines 91-92: the next i of the range and chunk = data[i:i + chunk_size]
TextNext ==
    /\ pc = "t91"
    /\ IF rng = <<>>
       THEN /\ pc' = "t97"
            /\ UNCHANGED <<rng, chunk, hidx, reads>>
       ELSE LET i == Head(rng)
                c == PySlice(data, i, i + chunk_size) IN
            /\ rng' = Tail(rng)
            /\ chunk' = c
            /\ reads' = Append(reads, c)
            /\ hidx' = 1
            /\ pc' = IF hashers.keys = <<>> THEN "t95" ELSE "t93"
    /\ UNCHANGED <<fs, text, call, hash_algorithms, data, total, chunk_size, hashers, f,
                   pbar, events, outcome, prev, mainVars, sh>>

TextUpdate == pc = "t93" /\ UpdateStep("t95")

TextPbar == pc = "t95" /\ PbarStep("t91")

TextReturn == pc = "t97" /\ ReturnStep

(***************************************************************************)
(* One invocation after another on the same Hasher: no state of an         *)
(* invocation survives it; prev keeps what the caller saw of the last one. *)
(***************************************************************************)
Fresh ==
    /\ call = NoCall
    /\ pc = "idle"
    /\ hash_algorithms = None
    /\ data = <<>>
    /\ total = 0
    /\ chunk_size = 0
    /\ hashers = NoHashers
    /\ f = [open |-> FALSE, pos |-> 0]
    /\ rng = <<>>
    /\ chunk = <<>>
    /\ hidx = 1
    /\ pbar = 0
    /\ events = <<>>
    /\ reads = <<>>
    /\ outcome = Running

Again ==
    /\ pc = "done"
    /\ prev' = [kind |-> call.kind, algs |-> call.algs, mb |-> call.mb, outcome |-> outcome]
    /\ call' = NoCall
    /\ pc' = "idle"
    /\ hash_algorithms' = None
    /\ data' = <<>>
    /\ total' = 0
    /\ chunk_size' = 0
    /\ hashers' = NoHashers
    /\ f' = [open |-> FALSE, pos |-> 0]
    /\ rng' = <<>>
    /\ chunk' = <<>>
    /\ hidx' = 1
    /\ pbar' = 0
    /\ events' = <<>>
    /\ reads' = <<>>
    /\ outcome' = Running
    /\ UNCHANGED <<fs, text, mainVars, sh>>

(***************************************************************************)
(* Idle values of the parts a specification does not exercise.             *)
(***************************************************************************)
MainIdle ==
    /\ argv = <<>>
    /\ file_opt = NoParam
    /\ text_opt = NoParam
    /\ mpc = "off"
    /\ disk = <<>>
    /\ probes = <<>>

ShIdle == sh = [called |-> FALSE, text |-> <<>>, text_max_len |-> 0, result |-> <<>>]

EngineIdle == Fresh /\ prev = NoPrev /\ fs = Absent /\ text = <<>>

(***************************************************************************)
(* Spec: one invocation of hash_file or hash_text.  The input is a text,   *)
(* or a path that names a directory or a regular file.                     *)
(***************************************************************************)
AlgChoices == {None} \cup {Some(l) : l \in AlgLists}

Init ==
    /\ Fresh
    /\ prev = NoPrev
    /\ \/ text \in Texts /\ fs = Absent
       \/ text = <<>> /\ fs \in {Dir} \cup {RegularFile(b) : b \in FileContents}
    /\ MainIdle
    /\ ShIdle

Next ==
    \/ \E algs \in AlgChoices, mb \in ChunkSizesMb : CallHashFile(algs, mb)
    \/ \E algs \in AlgChoices, mb \in ChunkSizesMb : CallHashText(algs, mb)
    \/ FileIsFile
    \/ FileDefault
    \/ FileGetSize
    \/ FileChunkSize
    \/ FileValidate
    \/ FileHashers
    \/ FileOpen
    \/ FileRead
    \/ FileUpdate
    \/ FilePbar
    \/ FileReturn
    \/ TextDefault
    \/ TextEncode
    \/ TextChunkSize
    \/ TextValidate
    \/ TextHashers
    \/ TextRange
    \/ TextNext
    \/ TextUpdate
    \/ TextPbar
    \/ TextReturn

Spec == Init /\ [][Next]_vars

(***************************************************************************)
(* SpecPair: invocations one after another on the same input (a text and   *)
(* the path of a file holding its UTF-8 bytes) with the same algorithms.   *)
(***************************************************************************)
InitPair ==
    /\ Fresh
    /\ prev = NoPrev
    /\ text \in Texts
    /\ fs \in {Absent, Dir} \cup (IF Encode(text).ok THEN {RegularFile(Encode(text).bytes)} ELSE {})
    /\ MainIdle
    /\ ShIdle

NextPair == Next \/ Again

SpecPair == InitPair /\ [][NextPair]_vars

(***************************************************************************)
(* _shorten_middle_text (lines 20-25).                                     *)
(***************************************************************************)
Ellipsis == <<".", ".", ".">>

\* a shortener that forgets the three characters of the ellipsis
_shorten_mutNoEllipsisRoom(t, text_max_len) ==
    IF Len(t) <= text_max_len THEN t
    ELSE LET part == FloorDiv(text_max_len, 2)
         IN PySlice(t, 0, part) \o Ellipsis \o PySliceFrom(t, -part)

_shorten_middle_text(t, text_max_len) ==
    IF Len(t) <= text_max_len THEN t
    ELSE LET part == FloorDiv(text_max_len - 3, 2)
         IN PySlice(t, 0, part) \o Ellipsis \o PySliceFrom(t, -part)

\* Longest label handed to _shorten_middle_text, and largest text_max_len.
MaxLabelLen == 8
MaxTextMaxLen == 7

Labels == SeqsUpTo({"a", "b"}, MaxLabelLen)

\* one call: the arguments are drawn at the start, the call computes the result
ShortenCall ==
    /\ ~sh.called
    /\ sh' = [sh EXCEPT !.called = TRUE,
                        !.result = _shorten_middle_text(sh.text, sh.text_max_len)]
    /\ UNCHANGED <<engineVars, mainVars>>

InitShorten ==
    /\ EngineIdle
    /\ MainIdle
    /\ sh \in [called : {FALSE}, text : Labels, text_max_len : 0..MaxTextMaxLen, result : {<<>>}]

NextShorten == ShortenCall

SpecShorten == InitShorten /\ [][NextShorten]_vars

(***************************************************************************)
(* Hasher.cli.main (lines 114-151), up to the call of hash_file or         *)
(* hash_text, which the steps above model; the list of algorithms (lines   *)
(* 138-140) and the table (lines 145-147) have no part in the choice of    *)
(* the input.  A parameter is None or a string; "a" and "b" are strings    *)
(* that may name something on the disk, "" names nothing.                  *)
(***************************************************************************)
Names == {"a", "b"}
Params == {NoParam} \cup {Some(x) : x \in {""} \cup Names}

\* the truth value Python gives an optional string
Truthy(o) == o.given /\ o.val # ""

\* os.path.exists(p) in the place of os.path.isfile(p)
PathIsFile_mutExists(d, p) == p \in DOMAIN d /\ d[p] \in {"file", "dir"}
\* os.path.isfile(p)
PathIsFile(d, p) == p \in DOMAIN d /\ d[p] = "file"

\* lines 125-127: a positional input stands in when neither option is truthy
MainResolve ==
    /\ mpc = "m125"
    /\ IF Truthy(argv.input) /\ ~(Truthy(file_opt) \/ Truthy(text_opt))
       THEN LET isf == PathIsFile(disk, argv.input.val)
                newfile == IF isf THEN argv.input ELSE NoParam IN
            /\ probes' = Append(probes, argv.input.val)
            /\ file_opt' = newfile
            /\ text_opt' = IF ~Truthy(newfile) THEN argv.input ELSE NoParam
       ELSE UNCHANGED <<probes, file_opt, text_opt>>
    /\ mpc' = "m129"
    /\ UNCHANGED <<argv, disk, engineVars, sh>>

\* lines 129-131: "Error: provide --file or --text", exit status 1
MainCheckNone ==
    /\ mpc = "m129"
    /\ mpc' = IF ~Truthy(file_opt) /\ ~Truthy(text_opt) THEN "exit1" ELSE "m133"
    /\ UNCHANGED <<argv, file_opt, text_opt, disk, probes, engineVars, sh>>

\* lines 133-135: "Error: choose only one of --file or --text", exit status 1
MainCheckBoth ==
    /\ mpc = "m133"
    /\ mpc' = IF Truthy(file_opt) /\ Truthy(text_opt) THEN "exit1" ELSE "m142"
    /\ UNCHANGED <<argv, file_opt, text_opt, disk, probes, engineVars, sh>>

\* lines 142-143: self.hash_file(file, ...) if file else self.hash_text(text, ...)
MainDispatch ==
    /\ mpc = "m142"
    /\ mpc' = IF Truthy(file_opt) THEN "hash_file" ELSE "hash_text"
    /\ UNCHANGED <<argv, file_opt, text_opt, disk, probes, engineVars, sh>>

InitMain ==
    /\ EngineIdle
    /\ ShIdle
    /\ argv \in [input : Params, file : Params, text : Params]
    /\ file_opt = argv.file
    /\ text_opt = argv.text
    /\ mpc = "m125"
    /\ disk \in [Names -> {"absent", "dir", "file"}]
    /\ probes = <<>>

NextMain ==
    \/ MainResolve
    \/ MainCheckNone
    \/ MainCheckBoth
    \/ MainDispatch

SpecMain == InitMain /\ [][NextMain]_vars

(***************************************************************************)
(* Vocabulary of the properties.                                           *)
(***************************************************************************)
Supported == {"md5", "sha1", "sha256", "sha512"}

\* the identifiers the caller asked for: all four when the list is None
Requested == IF call.algs.given THEN call.algs.val ELSE <<"md5", "sha1", "sha256", "sha512">>

ValidRequest == \A n \in 1..Len(Requested) : Requested[n] \in Supported
BadPositions == {n \in 1..Len(Requested) : Requested[n] \notin Supported}
FirstBad == Requested[CHOOSE n \in BadPositions : \A m \in BadPositions : n <= m]

\* the bytes of the input of the running invocation
Input == IF call.kind = "file" THEN fs.content ELSE Encode(text).bytes

\* the in-order partition of b into pieces of c > 0 bytes, the last one maybe shorter
RECURSIVE Partition(_, _)
Partition(b, c) ==
    IF b = <<>> THEN <<>>
    ELSE IF Len(b) <= c THEN <<b>>
    ELSE <<SubSeq(b, 1, c)>> \o Partition(SubSeq(b, c + 1, Len(b)), c)

RECURSIVE Flatten(_)
Flatten(cs) == IF cs = <<>> THEN <<>> ELSE Head(cs) \o Flatten(Tail(cs))

IsPrefix(a, b) == Len(a) <= Len(b) /\ a = SubSeq(b, 1, Len(a))
Front(a) == SubSeq(a, 1, Len(a) - 1)

\* the members of a list in the order of their first occurrence
RECURSIVE FirstOccurrences(_, _)
FirstOccurrences(l, seen) ==
    IF l = <<>> THEN <<>>
    ELSE IF Head(l) \in seen THEN FirstOccurrences(Tail(l), seen)
    ELSE <<Head(l)>> \o FirstOccurrences(Tail(l), seen \cup {Head(l)})

\* the digest of the bytes b under algorithm alg
DigestOf(alg, b) == <<alg, b>>

ResultKeys == [n \in 1..Len(outcome.result) |-> outcome.result[n][1]]
InputOps == {"isfile", "getsize", "open", "read"}
AtRead == pc \in {"f66", "t91"}

(***************************************************************************)
(* C1 (chunk completeness and fan-out): in an invocation with a valid      *)
(* algorithm list and a chunk size C > 0, the chunks the reader produces   *)
(* are a prefix of the in-order partition of the input into pieces of C    *)
(* bytes, none empty; every accumulator has received exactly those chunks, *)
(* in that order, except for the chunk being distributed; whenever the     *)
(* next chunk is about to be read every accumulator has received all the   *)
(* chunks read so far; and at the return every accumulator has received    *)
(* the whole partition and absorbed exactly the bytes of the input.        *)
(***************************************************************************)
C1_ChunkPartition ==
    (call.kind \in {"file", "text"} /\ ValidRequest /\ call.mb > 0) =>
        IF chunk_size <= 0
        THEN reads = <<>> /\ outcome.status # "returned"
        ELSE LET P == Partition(Input, chunk_size) IN
             /\ IsPrefix(reads, P)
             /\ \A n \in 1..Len(reads) :
                    /\ Len(reads[n]) > 0
                    /\ Len(reads[n]) <= chunk_size
                    /\ n < Len(P) => Len(reads[n]) = chunk_size
             /\ \A k \in Range(hashers.keys) :
                    /\ hashers.acc[k].calls = reads
                       \/ (reads # <<>> /\ hashers.acc[k].calls = Front(reads))
                    /\ hashers.acc[k].data = Flatten(hashers.acc[k].calls)
                    /\ AtRead => hashers.acc[k].calls = reads
             /\ outcome.status = "returned" =>
                    /\ reads = P
                    /\ Flatten(reads) = Input
                    /\ Len(outcome.result) = Len(hashers.keys)
                    /\ \A n \in 1..Len(hashers.keys) :
                           /\ hashers.acc[hashers.keys[n]].calls = P
                           /\ hashers.acc[hashers.keys[n]].data = Input
                           /\ outcome.result[n] = <<hashers.keys[n], DigestOf(hashers.keys[n], Input)>>

\* a returned invocation that read two chunks, the last one short, for two accumulators
C1_Witness ==
    /\ outcome.status = "returned"
    /\ ValidRequest
    /\ call.mb > 0
    /\ Len(reads) = 2
    /\ Len(reads[2]) < chunk_size
    /\ Len(hashers.keys) >= 2

(***************************************************************************)
(* C2 (chunk-size invariance), as claimed: two invocations of the same     *)
(* method on the same input with the same algorithms that both return a    *)
(* result return the same digests, whatever their chunk_size_mb.           *)
(***************************************************************************)
C2_ChunkSizeInvariance ==
    (/\ prev.kind = call.kind
     /\ prev.algs = call.algs
     /\ prev.outcome.status = "returned"
     /\ outcome.status = "returned") => outcome.result = prev.outcome.result

(***************************************************************************)
(* C3 (text vs. file equivalence), as claimed: hash_text on T and          *)
(* hash_file on a regular file that holds the UTF-8 bytes of T, with the   *)
(* same algorithms and the same chunk_size_mb, end the same way: the same  *)
(* mapping, or both fail.                                                  *)
(***************************************************************************)
C3_TextFileEquivalence ==
    (/\ pc = "done"
     /\ {prev.kind, call.kind} = {"text", "file"}
     /\ prev.algs = call.algs
     /\ prev.mb = call.mb
     /\ Encode(text).ok
     /\ fs = RegularFile(Encode(text).bytes)) =>
        /\ outcome.status = prev.outcome.status
        /\ outcome.result = prev.outcome.result

(***************************************************************************)
(* C4 (validation short-circuit).                                          *)
(***************************************************************************)
C4_Subject ==
    /\ call.kind = "text" \/ (call.kind = "file" /\ IsFile(fs))
    /\ ~ValidRequest

C4_NothingComputed ==
    /\ hashers.constructed = 0
    /\ hashers.keys = <<>>
    /\ \A n \in 1..Len(events) : events[n] \notin {"open", "read"}
    /\ ~f.open
    /\ reads = <<>>
    /\ outcome.status # "returned"

C8_EmptyListRejected ==
    (call.kind \in {"file", "text"} /\ call.algs = Some(<<>>)) =>
        /\ reads = <<>>
        /\ \A n \in 1..Len(events) : events[n] # "read"
        /\ outcome.status # "returned"

(***************************************************************************)
(* C9 (error-detection order of hash_file), as claimed: validation comes   *)
(* before every operation on the input path, the existence check before    *)
(* open and read, and a request with an unsupported identifier fails with  *)
(* the unsupported-algorithm error without any operation on the path.      *)
(***************************************************************************)
C9_ValidationBeforeIO ==
    call.kind = "file" =>
        /\ \A n \in 1..Len(events) :
              events[n] \in InputOps => \E m \in 1..(n - 1) : events[m] = "validate"
        /\ \A n \in 1..Len(events) :
              events[n] \in {"open", "read"} => \E m \in 1..(n - 1) : events[m] = "isfile"
        /\ (~ValidRequest /\ pc = "done") =>
              /\ outcome = Raised(UnsupportedError(FirstBad))
              /\ \A n \in 1..Len(events) : events[n] \notin InputOps

(***************************************************************************)
(* Vocabulary of the properties of main.                                   *)
(***************************************************************************)
BothSupplied == argv.file.given /\ argv.text.given
NoInput == ~argv.input.given /\ ~argv.file.given /\ ~argv.text.given
Hashing == mpc \in {"hash_file", "hash_text"}
OnlyPositional == argv.input.given /\ argv.input.val # "" /\ ~argv.file.given /\ ~argv.text.given
ExistsOnDisk(p) == p \in DOMAIN disk /\ disk[p] # "absent"
IsRegularFile(p) == p \in DOMAIN disk /\ disk[p] = "file"

(***************************************************************************)
(* C6 (exactly one input), as claimed: whatever the values of the          *)
(* positional argument, --file and --text (absent, empty or not), when     *)
(* both --file and --text are supplied, or nothing at all, main never      *)
(* touches the disk and never starts hashing; and hashing starts with      *)
(* exactly one of a file and a text.                                       *)
(***************************************************************************)
C6_ExactlyOneInput ==
    /\ (BothSupplied \/ NoInput) => (~Hashing /\ mpc # "m142" /\ probes = <<>>)
    /\ Hashing => (Truthy(file_opt) # Truthy(text_opt))

(***************************************************************************)
(* C7 (resolution of the positional argument).                             *)
(***************************************************************************)
\* C7 as claimed: given alone, a non-empty positional argument is hashed as a
\* file when the path exists on the disk and as literal text otherwise.
C7_AsClaimed ==
    OnlyPositional =>
        /\ mpc # "exit1"
        /\ mpc = "hash_file" => (ExistsOnDisk(argv.input.val) /\ file_opt = argv.input)
        /\ mpc = "hash_text" => (~ExistsOnDisk(argv.input.val) /\ text_opt = argv.input)

\* C7 amended: given alone, a non-empty positional argument is hashed as a file
\* when the path is an existing regular file and as literal text otherwise (a
\* missing path and a directory alike); one of the two is always chosen, after
\* one look at the disk.
C7_PositionalResolution ==
    OnlyPositional =>
        /\ mpc # "exit1"
        /\ mpc = "hash_file" =>
              /\ IsRegularFile(argv.input.val)
              /\ file_opt = argv.input
              /\ ~Truthy(text_opt)
        /\ mpc = "hash_text" =>
              /\ ~IsRegularFile(argv.input.val)
              /\ text_opt = argv.input
              /\ ~Truthy(file_opt)
        /\ mpc # "m125" => probes = <<argv.input.val>>

\* a positional argument that names a directory, hashed as text
C7_Witness ==
    /\ OnlyPositional
    /\ mpc = "hash_text"
    /\ ExistsOnDisk(argv.input.val)

(***************************************************************************)
(* C10 (truncation rule), as claimed: for every text and every             *)
(* text_max_len >= 0, a text no longer than text_max_len is returned       *)
(* unchanged and a longer one as a prefix and a suffix of the text of      *)
(* equal size around "...", the result no longer than text_max_len.        *)
(***************************************************************************)
C10_TruncationRule ==
    sh.called =>
        IF Len(sh.text) <= sh.text_max_len
        THEN sh.result = sh.text
        ELSE /\ Len(sh.result) <= sh.text_max_len
             /\ \E k \in 0..Len(sh.text) :
                    sh.result = SubSeq(sh.text, 1, k) \o <<".", ".", ".">>
                                \o SubSeq(sh.text, Len(sh.text) - k + 1, Len(sh.text))


\* C10 amended: a text no longer than text_max_len is returned unchanged; for
\* text_max_len >= 5 a longer text is returned as its first and its last
\* (text_max_len - 3) div 2 characters around "...", which is no longer than
\* text_max_len; for text_max_len <= 4 a longer text is not capped: the result is
\* longer than text_max_len, and for 3 and 4 it is "..." followed by the whole text.
C10_TruncationFromFive ==
    sh.called =>
        LET n == Len(sh.text)
            m == sh.text_max_len
            k == (m - 3) \div 2
        IN IF n <= m THEN sh.result = sh.text
           ELSE IF m >= 5
           THEN /\ k >= 1
                /\ sh.result = SubSeq(sh.text, 1, k) \o <<".", ".", ".">>
                               \o SubSeq(sh.text, n - k + 1, n)
                /\ Len(sh.result) = 2 * k + 3
                /\ Len(sh.result) <= m
           ELSE /\ Len(sh.result) > m
                /\ m >= 3 => sh.result = <<".", ".", ".">> \o sh.text

\* a text of eight characters cut to seven: two, the ellipsis, two
C10_Witness ==
    /\ sh.called
    /\ Len(sh.text) = 8
    /\ sh.text_max_len = 7
    /\ Len(sh.result) = 7

====
